---- MODULE Spec2Model ----
(***************************************************************************)
(* Model of the matching and scoring engine of AdaKGC                      *)
(* (src/adakgc/extraction/scorer.py): the tuple accumulator Metric, the    *)
(* record accumulators RecordMetric / OrderedRecordMetric and the scorers  *)
(* built on them.                                                          *)
(*                                                                         *)
(* Counters are Python floats holding small whole numbers; they are        *)
(* modelled as naturals.  Quotients are modelled as exact fractions.       *)
(***************************************************************************)
EXTENDS Integers, Sequences, FiniteSets, TLC

VARIABLES
    metric,         \* the accumulator object: [cls, match_mode, tp, gold_num, pred_num]
    op,             \* the last method called on it
    gold_list,      \* first argument of the last call
    pred_list,      \* second argument of the last call
    raised,         \* the exception the last call ended with, "none" if it returned
    pre,            \* the accumulator as it was when the last call started
    prefix,         \* the prefix argument of the last compute_f1 call
    result,         \* the mapping returned by the last compute_f1 call
    batch_gold_list,    \* first argument of count_batch_instance
    batch_pred_list,    \* second argument of count_batch_instance
    eq_gold,        \* first argument of is_equal
    eq_pred,        \* second argument of is_equal
    equal,          \* what is_equal returned, per class it was called on
    gold_instance_list, \* first argument of eval_instance_list
    pred_instance_list, \* second argument of eval_instance_list
    arg_verbose,        \* its argument verbose
    arg_match_mode,     \* its argument match_mode
    evaluated,          \* eval_instance_list has been called
    results,            \* the mapping it returned
    warnings,           \* what it wrote to the error stream, in order
    scorer,             \* the scorer class eval_instance_list is called on
    calls,              \* the inputs of the eval_instance_list calls of this run, in
                        \* order: "given" or "other"
    first               \* what the first call of the run returned and wrote

accVars == <<metric, op, gold_list, pred_list, raised, pre, prefix, result>>
batchVars == <<batch_gold_list, batch_pred_list>>
eqVars == <<eq_gold, eq_pred, equal>>

evalVars == <<gold_instance_list, pred_instance_list, arg_verbose, arg_match_mode,
              evaluated, results, warnings, scorer, calls, first>>

vars == <<accVars, batchVars, eqVars, evalVars>>

----------------------------------------------------------------------------
(* Bounds *)

MaxLen == 2         \* longest gold / prediction list passed to one call
MaxCount == 3       \* cap on gold_num and pred_num
MaxAsocs == 2       \* longest argument bag of a record handed to is_equal
MaxBatch == 2       \* longest list of examples handed to count_batch_instance
MaxBatchLen == 1    \* longest per-example list inside a batch
MaxExamples == 2    \* longest list of examples handed to eval_instance_list
MaxItems == 2       \* most relations over all examples of one corpus
MaxCalls == 3       \* most eval_instance_list calls in one run

----------------------------------------------------------------------------
(* Generic helpers for Python lists *)

SeqsUpTo(S, n) == UNION {[1..k -> S] : k \in 0..n}

Range(s) == {s[i] : i \in 1..Len(s)}

\* x in list
Contains(list, x) == \E i \in 1..Len(list) : list[i] = x

\* number of positions of list holding x
CountOf(list, x) == Cardinality({i \in 1..Len(list) : list[i] = x})

\* a remove that leaves the list as it was
RemoveNothing(list, x) == list

\* a remove that drops every element equal to x
RemoveEvery(list, x) == SelectSeq(list, LAMBDA e : e # x)

\* list.remove(x): drop the first element equal to x
Remove(list, x) ==
    LET i == CHOOSE j \in 1..Len(list) :
                 list[j] = x /\ \A k \in 1..(j - 1) : list[k] # x
    IN  SubSeq(list, 1, i - 1) \o SubSeq(list, i + 1, Len(list))

Min(a, b) == IF a < b THEN a ELSE b

----------------------------------------------------------------------------
(* Values *)

MatchModes == {"set", "normal", "multimatch"}

\* flat tuples scored by Metric; the last one has a different arity
Tuples == {<<"PER", "a">>, <<"PER", "b">>, <<"a">>}

TupleLists == SeqsUpTo(Tuples, MaxLen)

\* role arguments (role_type, role_value) of a record; role types are numbered
Roles == {<<1, 1>>, <<1, 2>>, <<2, 1>>}

\* composite records scored by RecordMetric / OrderedRecordMetric: the first two
\* differ only in the order of their argument bag, the third in its spot
ScoredRecords ==
    { [type |-> "T", spot |-> 1, asocs |-> <<<<1, 1>>, <<2, 1>>>>],
      [type |-> "T", spot |-> 1, asocs |-> <<<<2, 1>>, <<1, 1>>>>],
      [type |-> "T", spot |-> 2, asocs |-> <<>>] }

RecordLists == SeqsUpTo(ScoredRecords, MaxLen)

\* records handed to is_equal
Records == [type : {"T", "U"}, spot : {1, 2}, asocs : SeqsUpTo(Roles, MaxAsocs)]

\* per-example lists of a batch, by class of the accumulator
BatchLists(cls) ==
    IF cls = "Metric"
    THEN SeqsUpTo({<<"PER", "a">>, <<"a">>}, MaxBatchLen)
    ELSE SeqsUpTo({r \in ScoredRecords : r.spot = 1}, MaxBatchLen)

Batches(cls) == SeqsUpTo(BatchLists(cls), MaxBatch)

RelArg(type, offset, text) == [type |-> type, offset |-> offset, text |-> text]

\* raw relation records: the second swaps the argument types of the first
RelationRecords ==
    { [type |-> "REL", args |-> <<RelArg("PER", <<0, 1>>, "x"), RelArg("ORG", <<2, 3>>, "y")>>],
      [type |-> "REL", args |-> <<RelArg("ORG", <<0, 1>>, "x"), RelArg("PER", <<2, 3>>, "y")>>] }

\* raw relation records: the second moves the first argument of the first,
\* leaving its text
MovedRelations ==
    { [type |-> "REL", args |-> <<RelArg("PER", <<0, 1>>, "x"), RelArg("ORG", <<2, 3>>, "y")>>],
      [type |-> "REL", args |-> <<RelArg("PER", <<4, 5>>, "x"), RelArg("ORG", <<2, 3>>, "y")>>] }

\* raw entity spans: the same text at two offsets
EntitySpans ==
    { [type |-> "PER", offset |-> <<0, 1>>, text |-> "Bob"],
      [type |-> "PER", offset |-> <<2, 3>>, text |-> "Bob"] }

\* raw event records: the same trigger text and the same argument text at two
\* offsets each
EventRecords ==
    { [type |-> "ATTACK", offset |-> <<0, 1>>, text |-> "hit",
       args |-> <<[type |-> "AGENT", offset |-> <<2, 3>>, text |-> "Bob"]>>],
      [type |-> "ATTACK", offset |-> <<4, 5>>, text |-> "hit",
       args |-> <<[type |-> "AGENT", offset |-> <<6, 7>>, text |-> "Bob"]>>] }

Scorers == {"EntityScorer", "RelationScorer", "EventScorer"}

\* prefixes handed to compute_f1
Prefixes == {"", "offset-ent-"}

NoResult == [k \in {} |-> 0]

----------------------------------------------------------------------------
(* Exact fractions standing for the float quotients of compute_f1 *)

RECURSIVE Gcd(_, _)
Gcd(a, b) == IF b = 0 THEN a ELSE Gcd(b, a % b)

Frac(n, d) == LET g == Gcd(n, d) IN [n |-> n \div g, d |-> d \div g]

Whole(n) == [n |-> n, d |-> 1]

FMul(a, b) == Frac(a.n * b.n, a.d * b.d)

FAdd(a, b) == Frac(a.n * b.d + b.n * a.d, a.d * b.d)

\* Python's a / b on floats
TrueDiv(a, b) ==
    IF b.n = 0
    THEN [raised |-> "ZeroDivisionError", val |-> Whole(0)]
    ELSE [raised |-> "none", val |-> Frac(a.n * b.d, a.d * b.n)]

----------------------------------------------------------------------------
(* Metric *)

\* Metric.__init__
NewMetric(cls, match_mode) ==
    [cls |-> cls, match_mode |-> match_mode, tp |-> 0, gold_num |-> 0, pred_num |-> 0]

\* the loop consuming the matched gold element whatever the match mode
RECURSIVE MatchLoopConsuming(_, _, _, _)
MatchLoopConsuming(match_mode, dup_gold_list, preds, tp) ==
    IF preds = <<>> THEN tp
    ELSE LET p == Head(preds) IN
         IF Contains(dup_gold_list, p)
         THEN MatchLoopConsuming(match_mode, Remove(dup_gold_list, p),
                                 Tail(preds), tp + 1)
         ELSE MatchLoopConsuming(match_mode, dup_gold_list, Tail(preds), tp)

\* the loop "for pred in pred_list" of Metric.count_instance; returns tp
RECURSIVE MatchLoop(_, _, _, _)
MatchLoop(match_mode, dup_gold_list, preds, tp) ==
    IF preds = <<>> THEN tp
    ELSE LET p == Head(preds) IN
         IF Contains(dup_gold_list, p)
         THEN MatchLoop(match_mode,
                        IF match_mode = "normal"
                        THEN Remove(dup_gold_list, p)
                        ELSE dup_gold_list,
                        Tail(preds), tp + 1)
         ELSE MatchLoop(match_mode, dup_gold_list, Tail(preds), tp)

\* matches counted on the lists as given, without deduplication
SetMatchesWithRepeats(gold, preds) ==
    Cardinality({i \in 1..Len(preds) : Contains(gold, preds[i])})

\* len(gold_list & pred_list) of the set branch
SetMatches(gold, preds) == Cardinality(Range(gold) \cap Range(preds))

\* the assertion compiled away
ArityAssertSkipped(gold, preds) == FALSE

\* the assertion "guarantee length same" fails
ArityAssertFails(gold, preds) ==
    Len(gold) > 0 /\ Len(preds) > 0 /\ Len(gold[1]) # Len(preds[1])

\* Metric.count_instance: the accumulator after the call and the exception raised
Metric_count_instance(self, gold, preds) ==
    IF self.match_mode = "set"
    THEN [self |-> [self EXCEPT
                      !.gold_num = @ + Cardinality(Range(gold)),
                      !.pred_num = @ + Cardinality(Range(preds)),
                      !.tp = @ + SetMatches(gold, preds)],
          raised |-> "none"]
    ELSE LET counted == [self EXCEPT !.gold_num = @ + Len(gold),
                                     !.pred_num = @ + Len(preds)]
         IN  IF ArityAssertFails(gold, preds)
             THEN [self |-> counted, raised |-> "AssertionError"]
             ELSE [self |-> [counted EXCEPT
                               !.tp = MatchLoop(self.match_mode, gold, preds, @)],
                   raised |-> "none"]

\* a division without the guard on the denominator
safe_div_unguarded(a, b) == TrueDiv(a, b)

\* Metric.safe_div
safe_div(a, b) ==
    IF b.n = 0
    THEN [raised |-> "none", val |-> Whole(0)]
    ELSE TrueDiv(a, b)

\* Metric.compute_f1: the mapping returned and the exception raised
compute_f1(self, pf) ==
    LET tp == Whole(self.tp)
        pred_num == Whole(self.pred_num)
        gold_num == Whole(self.gold_num)
        p == safe_div(tp, pred_num)
        r == safe_div(tp, gold_num)
        f == safe_div(FMul(Whole(2), FMul(p.val, r.val)), FAdd(p.val, r.val))
    IN  IF p.raised # "none" \/ r.raised # "none" \/ f.raised # "none"
        THEN [raised |-> "ZeroDivisionError", value |-> NoResult]
        ELSE [raised |-> "none",
              value |-> (pf \o "tp") :> tp
                     @@ (pf \o "gold") :> gold_num
                     @@ (pf \o "pred") :> pred_num
                     @@ (pf \o "P") :> FMul(p.val, Whole(100))
                     @@ (pf \o "R") :> FMul(r.val, Whole(100))
                     @@ (pf \o "F1") :> FMul(f.val, Whole(100))]

----------------------------------------------------------------------------
(* RecordMetric / OrderedRecordMetric *)

\* order of Python tuples (role_type, role_value)
RoleLess(a, b) == a[1] < b[1] \/ (a[1] = b[1] /\ a[2] < b[2])

RECURSIVE Insert(_, _)
Insert(x, s) ==
    IF s = <<>> THEN <<x>>
    ELSE IF RoleLess(x, Head(s)) THEN <<x>> \o s
    ELSE <<Head(s)>> \o Insert(x, Tail(s))

\* a sort that returns its argument as it is
sorted_skipped(s) == s

\* sorted(asocs)
RECURSIVE sorted(_)
sorted(s) == IF s = <<>> THEN <<>> ELSE Insert(Head(s), sorted(Tail(s)))

\* RecordMetric.is_equal
RecordMetric_is_equal(gold, pred) ==
    IF gold.type # pred.type THEN FALSE
    ELSE IF gold.spot # pred.spot THEN FALSE
    ELSE IF Len(gold.asocs) # Len(pred.asocs) THEN FALSE
    ELSE LET g == sorted(gold.asocs)
             p == sorted(pred.asocs)
         IN  \A i \in 1..Min(Len(g), Len(p)) : g[i] = p[i]

\* OrderedRecordMetric.is_equal
OrderedRecordMetric_is_equal(gold, pred) ==
    IF gold.type # pred.type THEN FALSE
    ELSE IF gold.spot # pred.spot THEN FALSE
    ELSE IF Len(gold.asocs) # Len(pred.asocs) THEN FALSE
    ELSE \A i \in 1..Min(Len(gold.asocs), Len(pred.asocs)) :
             gold.asocs[i] = pred.asocs[i]

\* self.is_equal, resolved on the class of the accumulator
is_equal(cls, gold, pred) ==
    IF cls = "OrderedRecordMetric"
    THEN OrderedRecordMetric_is_equal(gold, pred)
    ELSE RecordMetric_is_equal(gold, pred)

\* the scan without the per-gold consumed flag
RECURSIVE ScanGoldUnflagged(_, _, _, _, _, _)
ScanGoldUnflagged(cls, match_mode, gold, p, gold_index, st) ==
    IF gold_index > Len(gold) THEN st
    ELSE IF is_equal(cls, gold[gold_index], p)
    THEN LET hit == [st EXCEPT !.tp = @ + 1]
         IN  IF match_mode = "normal"
             THEN hit
             ELSE ScanGoldUnflagged(cls, match_mode, gold, p, gold_index + 1, hit)
    ELSE ScanGoldUnflagged(cls, match_mode, gold, p, gold_index + 1, st)

\* the loop "for gold_index in gold_indexes" for one prediction;
\* st = [tp, non_found]
RECURSIVE ScanGold(_, _, _, _, _, _)
ScanGold(cls, match_mode, gold, p, gold_index, st) ==
    IF gold_index > Len(gold) THEN st
    ELSE IF st.non_found[gold_index] /\ is_equal(cls, gold[gold_index], p)
    THEN LET hit == [tp |-> st.tp + 1,
                     non_found |-> [st.non_found EXCEPT ![gold_index] = FALSE]]
         IN  IF match_mode = "normal"
             THEN hit
             ELSE ScanGold(cls, match_mode, gold, p, gold_index + 1, hit)
    ELSE ScanGold(cls, match_mode, gold, p, gold_index + 1, st)

\* the loop "for pred in pred_list" of RecordMetric.count_instance
RECURSIVE RecordLoop(_, _, _, _, _)
RecordLoop(cls, match_mode, gold, preds, st) ==
    IF preds = <<>> THEN st
    ELSE RecordLoop(cls, match_mode, gold, Tail(preds),
                    ScanGold(cls, match_mode, gold, Head(preds), 1, st))

\* RecordMetric.count_instance past its check of the match mode
RecordCounted(self, gold, preds) ==
    LET counted == [self EXCEPT !.gold_num = @ + Len(gold),
                                !.pred_num = @ + Len(preds)]
        st == RecordLoop(self.cls, self.match_mode, gold, preds,
                         [tp |-> self.tp,
                          non_found |-> [i \in 1..Len(gold) |-> TRUE]])
    IN  [self |-> [counted EXCEPT !.tp = st.tp], raised |-> "none"]

\* count_instance without the check of the match mode
RecordMetric_count_instance_unchecked(self, gold, preds) ==
    RecordCounted(self, gold, preds)

\* RecordMetric.count_instance (inherited by OrderedRecordMetric)
RecordMetric_count_instance(self, gold, preds) ==
    IF self.match_mode = "set"
    THEN [self |-> self, raised |-> "NotImplementedError"]
    ELSE RecordCounted(self, gold, preds)

\* self.count_instance, resolved on the class of the accumulator
\* a count_instance that assigns the counts of the call instead of adding them
count_instance_overwriting(self, gold, preds) ==
    IF self.cls = "Metric"
    THEN Metric_count_instance(NewMetric(self.cls, self.match_mode), gold, preds)
    ELSE RecordMetric_count_instance(NewMetric(self.cls, self.match_mode), gold, preds)

count_instance(self, gold, preds) ==
    IF self.cls = "Metric"
    THEN Metric_count_instance(self, gold, preds)
    ELSE RecordMetric_count_instance(self, gold, preds)

Classes == {"Metric", "RecordMetric", "OrderedRecordMetric"}

\* one batch call on the concatenated lists, matching across examples
RECURSIVE Flatten(_)
Flatten(lists) == IF lists = <<>> THEN <<>> ELSE Head(lists) \o Flatten(Tail(lists))

count_batch_instance_flattened(self, batch_gold, batch_pred) ==
    LET n == Min(Len(batch_gold), Len(batch_pred))
    IN  count_instance(self, Flatten(SubSeq(batch_gold, 1, n)),
                             Flatten(SubSeq(batch_pred, 1, n)))

\* the loop of count_batch_instance from example i on; an exception ends it
RECURSIVE BatchLoop(_, _, _, _)
BatchLoop(self, batch_gold, batch_pred, i) ==
    IF i > Len(batch_gold) \/ i > Len(batch_pred)
    THEN [self |-> self, raised |-> "none"]
    ELSE LET out == count_instance(self, batch_gold[i], batch_pred[i])
         IN  IF out.raised # "none" THEN out
             ELSE BatchLoop(out.self, batch_gold, batch_pred, i + 1)

\* a zip that pairs the surplus of the longer list with the last element of the
\* shorter one
zip_padded(a, b) ==
    IF Len(a) = 0 \/ Len(b) = 0 THEN <<>>
    ELSE [i \in 1..(IF Len(a) > Len(b) THEN Len(a) ELSE Len(b)) |->
             <<a[Min(i, Len(a))], b[Min(i, Len(b))]>>]

\* zip(a, b): the pairs up to the end of the shorter list
zip(a, b) == [i \in 1..Min(Len(a), Len(b)) |-> <<a[i], b[i]>>]

Firsts(pairs) == [i \in 1..Len(pairs) |-> pairs[i][1]]

Seconds(pairs) == [i \in 1..Len(pairs) |-> pairs[i][2]]

\* Metric.count_batch_instance
count_batch_instance(self, batch_gold, batch_pred) ==
    BatchLoop(self, Firsts(zip(batch_gold, batch_pred)),
                    Seconds(zip(batch_gold, batch_pred)), 1)

----------------------------------------------------------------------------
(* RelationScorer *)

\* the 5-tuple of a record on the offset axis
OffsetTuple(record) ==
    <<record.type, record.args[1].type, record.args[1].offset,
                   record.args[2].type, record.args[2].offset>>

\* the 5-tuple of a record on the string axis
StringTuple(record) ==
    <<record.type, record.args[1].type, record.args[1].text,
                   record.args[2].type, record.args[2].text>>

\* the instance RelationScorer.load_gold_list builds for one example
RelInstance(records) ==
    [offset |-> [i \in 1..Len(records) |-> OffsetTuple(records[i])],
     string |-> [i \in 1..Len(records) |-> StringTuple(records[i])]]

\* RelationScorer.load_gold_list
RelationScorer_load_gold_list(examples) ==
    [i \in 1..Len(examples) |-> RelInstance(examples[i])]

\* a projection of the predictions reading the wrong field
BoundaryPredMisindexed(list) ==
    [i \in 1..Len(list) |-> <<list[i][2], list[i][3], list[i][5]>>]

\* [(x[0], x[2], x[4]) for x in gold.get(eval_key, [])]
BoundaryGold(list) == [i \in 1..Len(list) |-> <<list[i][1], list[i][3], list[i][5]>>]

\* [(x[0], x[2], x[4]) for x in pred.get(eval_key, [])]
BoundaryPred(list) == [i \in 1..Len(list) |-> <<list[i][1], list[i][3], list[i][5]>>]

\* the pair of accumulators after both have counted, and the exception raised
AxesCounted(pair, off, str) ==
    IF off.raised # "none"
    THEN [pair |-> [pair EXCEPT !.offset = off.self], raised |-> off.raised]
    ELSE [pair |-> [offset |-> off.self, string |-> str.self], raised |-> str.raised]

\* one "for eval_key in metrics" loop: the offset accumulator, then the string one
CountAxes(pair, gold_offset, pred_offset, gold_string, pred_string) ==
    AxesCounted(pair, count_instance(pair.offset, gold_offset, pred_offset),
                      count_instance(pair.string, gold_string, pred_string))

\* the tp deltas of the two axes differ
Diverges(before, after) ==
    after.offset.tp - before.offset.tp # after.string.tp - before.string.tp

\* warning_tp_increment
warning_tp_increment(g, p, pf) == [prefix |-> pf, gold |-> g, pred |-> p]

\* a Warned that does not look at verbose
WarnedAlways(ws, verbose, before, after, g, p, pf) ==
    IF Diverges(before, after)
    THEN Append(ws, warning_tp_increment(g, p, pf))
    ELSE ws

\* the warnings after the check "verbose and the tp deltas differ"
Warned(ws, verbose, before, after, g, p, pf) ==
    IF verbose /\ Diverges(before, after)
    THEN Append(ws, warning_tp_increment(g, p, pf))
    ELSE ws

\* the state of the loop after the strict and the boundary accumulators counted
RelationCounted(st, g, p, verbose, strict, boundary) ==
    IF strict.raised # "none"
    THEN [st EXCEPT !.metrics = strict.pair, !.raised = strict.raised]
    ELSE IF boundary.raised # "none"
    THEN [st EXCEPT !.metrics = strict.pair,
                    !.warnings = Warned(@, verbose, st.metrics, strict.pair, g, p,
                                        "Relation Strict"),
                    !.boundary_metrics = boundary.pair,
                    !.raised = boundary.raised]
    ELSE [metrics |-> strict.pair,
          boundary_metrics |-> boundary.pair,
          warnings |-> Warned(Warned(st.warnings, verbose, st.metrics, strict.pair, g, p,
                                     "Relation Strict"),
                              verbose, st.boundary_metrics, boundary.pair, g, p,
                              "Relation Boundary"),
          raised |-> "none"]

\* the body of the loop of RelationScorer.eval_instance_list for one example
RelationStep(st, g, p, verbose) ==
    RelationCounted(st, g, p, verbose,
        CountAxes(st.metrics, g.offset, p.offset, g.string, p.string),
        CountAxes(st.boundary_metrics,
                  BoundaryGold(g.offset), BoundaryPred(p.offset),
                  BoundaryGold(g.string), BoundaryPred(p.string)))

\* the loop over zip(pred_instance_list, gold_instance_list) from example i on
RECURSIVE RelationLoop(_, _, _, _, _)
RelationLoop(st, golds, preds, verbose, i) ==
    IF i > Len(golds) \/ i > Len(preds) \/ st.raised # "none" THEN st
    ELSE RelationLoop(RelationStep(st, golds[i], preds[i], verbose),
                      golds, preds, verbose, i + 1)

\* the mapping merged from the four compute_f1 results once the loop has ended
RelationResults(st) ==
    [raised |-> st.raised,
     warnings |-> st.warnings,
     results |-> IF st.raised # "none" THEN NoResult
                 ELSE compute_f1(st.metrics.offset, "offset-rel-strict-").value
                   @@ compute_f1(st.metrics.string, "string-rel-strict-").value
                   @@ compute_f1(st.boundary_metrics.offset, "offset-rel-boundary-").value
                   @@ compute_f1(st.boundary_metrics.string, "string-rel-boundary-").value]

\* two accumulators that already hold one gold item for every earlier call
FreshAxesKept(match_mode) ==
    [offset |-> [NewMetric("Metric", match_mode) EXCEPT !.gold_num = Len(calls)],
     string |-> [NewMetric("Metric", match_mode) EXCEPT !.gold_num = Len(calls)]]

\* two fresh accumulators of a mode
FreshAxes(match_mode) ==
    [offset |-> NewMetric("Metric", match_mode), string |-> NewMetric("Metric", match_mode)]

\* RelationScorer.eval_instance_list: the mapping returned, the warnings written
\* and the exception raised
RelationScorer_eval_instance_list(golds, preds, verbose, match_mode) ==
    RelationResults(RelationLoop([metrics |-> FreshAxes(match_mode),
                                  boundary_metrics |-> FreshAxes(match_mode),
                                  warnings |-> <<>>, raised |-> "none"],
                                 Seconds(zip(preds, golds)), Firsts(zip(preds, golds)),
                                 verbose, 1))

----------------------------------------------------------------------------
(* EntityScorer *)

\* the instance EntityScorer.load_gold_list builds for one example
EntInstance(spans) ==
    [offset |-> [i \in 1..Len(spans) |-> <<spans[i].type, spans[i].offset>>],
     string |-> [i \in 1..Len(spans) |-> <<spans[i].type, spans[i].text>>]]

\* EntityScorer.load_gold_list
EntityScorer_load_gold_list(examples) ==
    [i \in 1..Len(examples) |-> EntInstance(examples[i])]

\* the pair of accumulators after both have counted, the string one first
AxesCountedStringFirst(pair, str, off) ==
    IF str.raised # "none"
    THEN [pair |-> [pair EXCEPT !.string = str.self], raised |-> str.raised]
    ELSE [pair |-> [offset |-> off.self, string |-> str.self], raised |-> off.raised]

\* the state of the loop after the two accumulators counted
EntityCounted(st, g, p, verbose, counted) ==
    IF counted.raised # "none"
    THEN [st EXCEPT !.metrics = counted.pair, !.raised = counted.raised]
    ELSE [metrics |-> counted.pair,
          warnings |-> Warned(st.warnings, verbose, st.metrics, counted.pair, g, p,
                              "Entity"),
          raised |-> "none"]

\* the body of the loop of EntityScorer.eval_instance_list for one example
EntityStep(st, g, p, verbose) ==
    EntityCounted(st, g, p, verbose,
        AxesCountedStringFirst(st.metrics,
            count_instance(st.metrics.string, g.string, p.string),
            count_instance(st.metrics.offset, g.offset, p.offset)))

\* the loop over zip(pred_instance_list, gold_instance_list) from example i on
RECURSIVE EntityLoop(_, _, _, _, _)
EntityLoop(st, golds, preds, verbose, i) ==
    IF i > Len(golds) \/ i > Len(preds) \/ st.raised # "none" THEN st
    ELSE EntityLoop(EntityStep(st, golds[i], preds[i], verbose),
                    golds, preds, verbose, i + 1)

\* the mapping merged from the two compute_f1 results once the loop has ended
EntityResults(st) ==
    [raised |-> st.raised,
     warnings |-> st.warnings,
     results |-> IF st.raised # "none" THEN NoResult
                 ELSE compute_f1(st.metrics.string, "string-ent-").value
                   @@ compute_f1(st.metrics.offset, "offset-ent-").value]

\* EntityScorer.eval_instance_list
EntityScorer_eval_instance_list(golds, preds, verbose, match_mode) ==
    EntityResults(EntityLoop([metrics |-> FreshAxes(match_mode),
                              warnings |-> <<>>, raised |-> "none"],
                             Seconds(zip(preds, golds)), Firsts(zip(preds, golds)),
                             verbose, 1))

----------------------------------------------------------------------------
(* EventScorer *)

\* the role tuples of one gold record on the offset / string axis
GoldOffsetRoles(record) ==
    [a \in 1..Len(record.args) |->
        <<record.type, record.args[a].type, record.args[a].offset>>]

GoldStringRoles(record) ==
    [a \in 1..Len(record.args) |->
        <<record.type, record.args[a].type, record.args[a].text>>]

\* the instance EventScorer.load_gold_list builds for one example
EvtInstance(records) ==
    [offset_trigger |-> [i \in 1..Len(records) |-> <<records[i].type, records[i].offset>>],
     string_trigger |-> [i \in 1..Len(records) |-> <<records[i].type, records[i].text>>],
     offset_role |-> Flatten([i \in 1..Len(records) |-> GoldOffsetRoles(records[i])]),
     string_role |-> Flatten([i \in 1..Len(records) |-> GoldStringRoles(records[i])])]

\* EventScorer.load_gold_list
EventScorer_load_gold_list(examples) ==
    [i \in 1..Len(examples) |-> EvtInstance(examples[i])]

\* the role tuples of one predicted event: (event_type, role_type, role_value)
PredRoles(event) ==
    [a \in 1..Len(event.roles) |-> <<event.type, event.roles[a][1], event.roles[a][2]>>]

\* the instance EventScorer.load_pred_list builds for one example
EvtPredInstance(p) ==
    [offset_trigger |-> [i \in 1..Len(p.offset) |-> <<p.offset[i].type, p.offset[i].trigger>>],
     string_trigger |-> [i \in 1..Len(p.string) |-> <<p.string[i].type, p.string[i].trigger>>],
     offset_role |-> Flatten([i \in 1..Len(p.offset) |-> PredRoles(p.offset[i])]),
     string_role |-> Flatten([i \in 1..Len(p.string) |-> PredRoles(p.string[i])])]

\* EventScorer.load_pred_list
EventScorer_load_pred_list(plist) ==
    [i \in 1..Len(plist) |-> EvtPredInstance(plist[i])]

\* the state of the loop after the trigger and the role accumulators counted
EventCounted(st, g, p, verbose, trigger, role) ==
    IF trigger.raised # "none"
    THEN [st EXCEPT !.trigger_metrics = trigger.pair, !.raised = trigger.raised]
    ELSE IF role.raised # "none"
    THEN [st EXCEPT !.trigger_metrics = trigger.pair,
                    !.warnings = Warned(@, verbose, st.trigger_metrics, trigger.pair,
                                        g, p, "Trigger"),
                    !.role_metrics = role.pair,
                    !.raised = role.raised]
    ELSE [trigger_metrics |-> trigger.pair,
          role_metrics |-> role.pair,
          warnings |-> Warned(Warned(st.warnings, verbose, st.trigger_metrics,
                                     trigger.pair, g, p, "Trigger"),
                              verbose, st.role_metrics, role.pair, g, p, "Role"),
          raised |-> "none"]

\* the body of the loop of EventScorer.eval_instance_list for one example
EventStep(st, g, p, verbose) ==
    EventCounted(st, g, p, verbose,
        CountAxes(st.trigger_metrics, g.offset_trigger, p.offset_trigger,
                                      g.string_trigger, p.string_trigger),
        CountAxes(st.role_metrics, g.offset_role, p.offset_role,
                                   g.string_role, p.string_role))

\* the loop over zip(pred_instance_list, gold_instance_list) from example i on
RECURSIVE EventLoop(_, _, _, _, _)
EventLoop(st, golds, preds, verbose, i) ==
    IF i > Len(golds) \/ i > Len(preds) \/ st.raised # "none" THEN st
    ELSE EventLoop(EventStep(st, golds[i], preds[i], verbose),
                   golds, preds, verbose, i + 1)

\* the mapping merged from the four compute_f1 results once the loop has ended
EventResults(st) ==
    [raised |-> st.raised,
     warnings |-> st.warnings,
     results |-> IF st.raised # "none" THEN NoResult
                 ELSE compute_f1(st.trigger_metrics.offset, "offset-evt-trigger-").value
                   @@ compute_f1(st.trigger_metrics.string, "string-evt-trigger-").value
                   @@ compute_f1(st.role_metrics.offset, "offset-evt-role-").value
                   @@ compute_f1(st.role_metrics.string, "string-evt-role-").value]

\* EventScorer.eval_instance_list
EventScorer_eval_instance_list(golds, preds, verbose, match_mode) ==
    EventResults(EventLoop([trigger_metrics |-> FreshAxes(match_mode),
                            role_metrics |-> FreshAxes(match_mode),
                            warnings |-> <<>>, raised |-> "none"],
                           Seconds(zip(preds, golds)), Firsts(zip(preds, golds)),
                           verbose, 1))

\* eval_instance_list of a scorer class
eval_instance_list(cls, golds, preds, verbose, match_mode) ==
    CASE cls = "EntityScorer" ->
           EntityScorer_eval_instance_list(golds, preds, verbose, match_mode)
      [] cls = "RelationScorer" ->
           RelationScorer_eval_instance_list(golds, preds, verbose, match_mode)
      [] OTHER ->
           EventScorer_eval_instance_list(golds, preds, verbose, match_mode)

----------------------------------------------------------------------------
(* The accumulator as a state machine *)

\* the variables a specification does not use keep these values
AccIdle ==
    /\ metric = NewMetric("Metric", "normal")
    /\ op = "__init__"
    /\ gold_list = <<>>
    /\ pred_list = <<>>
    /\ raised = "none"
    /\ pre = metric
    /\ prefix = ""
    /\ result = NoResult

BatchIdle == batch_gold_list = <<>> /\ batch_pred_list = <<>>

EqIdle ==
    /\ eq_gold = [type |-> "T", spot |-> 1, asocs |-> <<>>]
    /\ eq_pred = eq_gold
    /\ equal = [c \in {} |-> FALSE]

EvalIdle ==
    /\ gold_instance_list = <<>>
    /\ pred_instance_list = <<>>
    /\ arg_verbose = FALSE
    /\ arg_match_mode = "normal"
    /\ evaluated = FALSE
    /\ results = NoResult
    /\ warnings = <<>>
    /\ scorer = "none"
    /\ calls = <<>>
    /\ first = [results |-> NoResult, warnings |-> <<>>, raised |-> "none"]

Init ==
    /\ BatchIdle
    /\ EqIdle
    /\ EvalIdle
    /\ metric \in {NewMetric(c, m) : c \in Classes, m \in MatchModes}
    /\ op = "__init__"
    /\ gold_list = <<>>
    /\ pred_list = <<>>
    /\ raised = "none"
    /\ pre = metric
    /\ prefix = ""
    /\ result = NoResult

CountInstance ==
    /\ metric.cls = "Metric"
    /\ \E g \in TupleLists, p \in TupleLists :
         /\ metric.gold_num + Len(g) <= MaxCount
         /\ metric.pred_num + Len(p) <= MaxCount
         /\ LET out == Metric_count_instance(metric, g, p) IN
            /\ metric' = out.self
            /\ raised' = out.raised
            /\ op' = "count_instance"
            /\ gold_list' = g
            /\ pred_list' = p
            /\ pre' = metric
            /\ prefix' = ""
            /\ result' = NoResult
            /\ UNCHANGED <<batchVars, eqVars, evalVars>>

RecordCountInstance ==
    /\ metric.cls # "Metric"
    /\ \E g \in RecordLists, p \in RecordLists :
         /\ metric.gold_num + Len(g) <= MaxCount
         /\ metric.pred_num + Len(p) <= MaxCount
         /\ LET out == RecordMetric_count_instance(metric, g, p) IN
            /\ metric' = out.self
            /\ raised' = out.raised
            /\ op' = "count_instance"
            /\ gold_list' = g
            /\ pred_list' = p
            /\ pre' = metric
            /\ prefix' = ""
            /\ result' = NoResult
            /\ UNCHANGED <<batchVars, eqVars, evalVars>>

ComputeF1 ==
    \E pf \in Prefixes :
        LET out == compute_f1(metric, pf) IN
        /\ result' = out.value
        /\ prefix' = pf
        /\ raised' = out.raised
        /\ op' = "compute_f1"
        /\ gold_list' = <<>>
        /\ pred_list' = <<>>
        /\ pre' = metric
        /\ UNCHANGED <<metric, batchVars, eqVars, evalVars>>

Next == CountInstance \/ RecordCountInstance \/ ComputeF1

Spec == Init /\ [][Next]_vars

----------------------------------------------------------------------------
(* count_batch_instance applied, once or repeatedly, to a batch *)

InitBatch ==
    /\ EqIdle
    /\ EvalIdle
    /\ metric \in {NewMetric(c, m) : c \in {"Metric", "RecordMetric"}, m \in MatchModes}
    /\ batch_gold_list \in Batches(metric.cls)
    /\ batch_pred_list \in Batches(metric.cls)
    /\ op = "__init__"
    /\ gold_list = <<>>
    /\ pred_list = <<>>
    /\ raised = "none"
    /\ pre = metric
    /\ prefix = ""
    /\ result = NoResult

CountBatchInstance ==
    /\ metric.gold_num + Len(Flatten(batch_gold_list)) <= MaxCount
    /\ metric.pred_num + Len(Flatten(batch_pred_list)) <= MaxCount
    /\ LET out == count_batch_instance(metric, batch_gold_list, batch_pred_list) IN
       /\ metric' = out.self
       /\ raised' = out.raised
       /\ op' = "count_batch_instance"
       /\ pre' = metric
       /\ UNCHANGED <<gold_list, pred_list, prefix, result, batchVars, eqVars, evalVars>>

NextBatch == CountBatchInstance

SpecBatch == InitBatch /\ [][NextBatch]_vars

----------------------------------------------------------------------------
(* is_equal applied to a pair of records *)

InitEq ==
    /\ AccIdle
    /\ BatchIdle
    /\ EvalIdle
    /\ eq_gold \in Records
    /\ eq_pred \in Records
    /\ equal = [c \in {} |-> FALSE]

RecordIsEqual ==
    /\ "RecordMetric" \notin DOMAIN equal
    /\ equal' = equal @@ ("RecordMetric" :> RecordMetric_is_equal(eq_gold, eq_pred))
    /\ UNCHANGED <<accVars, batchVars, evalVars, eq_gold, eq_pred>>

OrderedIsEqual ==
    /\ "OrderedRecordMetric" \notin DOMAIN equal
    /\ equal' = equal @@ ("OrderedRecordMetric" :> OrderedRecordMetric_is_equal(eq_gold, eq_pred))
    /\ UNCHANGED <<accVars, batchVars, evalVars, eq_gold, eq_pred>>

NextEq == RecordIsEqual \/ OrderedIsEqual

SpecEq == InitEq /\ [][NextEq]_vars

----------------------------------------------------------------------------
(* RelationScorer.eval_instance_list applied to a corpus *)

\* lists of examples, each a list of relation records
RelationCorpora ==
    {c \in SeqsUpTo(SeqsUpTo(RelationRecords, MaxItems), MaxExamples) :
        Len(Flatten(c)) <= MaxItems}

\* predictions carry one offset tuple and one string tuple per relation
RelationPredictions ==
    {[i \in 1..Len(c) |-> RelInstance(c[i])] : c \in RelationCorpora}

InitRel ==
    /\ AccIdle
    /\ BatchIdle
    /\ EqIdle
    /\ gold_instance_list \in {RelationScorer_load_gold_list(c) : c \in RelationCorpora}
    /\ pred_instance_list \in RelationPredictions
    /\ arg_verbose \in BOOLEAN
    /\ arg_match_mode \in MatchModes
    /\ evaluated = FALSE
    /\ results = NoResult
    /\ warnings = <<>>
    /\ scorer = "RelationScorer"
    /\ calls = <<>>
    /\ first = [results |-> NoResult, warnings |-> <<>>, raised |-> "none"]

RelationEval ==
    /\ scorer = "RelationScorer"
    /\ ~evaluated
    /\ \E out \in {RelationScorer_eval_instance_list(gold_instance_list, pred_instance_list,
                                                        arg_verbose, arg_match_mode)} :
       /\ results' = out.results
       /\ warnings' = out.warnings
       /\ raised' = out.raised
    /\ evaluated' = TRUE
    /\ UNCHANGED <<metric, op, gold_list, pred_list, pre, prefix, result,
                   batchVars, eqVars,
                   gold_instance_list, pred_instance_list, arg_verbose, arg_match_mode,
                   scorer, calls, first>>

NextRel == RelationEval

SpecRel == InitRel /\ [][NextRel]_vars

----------------------------------------------------------------------------
(* eval_instance_list of the three scorers applied to a corpus *)

\* lists of examples, each annotated with no item or with one
Corpora(items) ==
    SeqsUpTo({<<>>} \cup {<<x>> : x \in items}, MaxExamples)

\* the raw prediction of one example, as EventScorer.load_pred_list reads it
EvtRawPred(records) ==
    [offset |-> [i \in 1..Len(records) |->
                    [type |-> records[i].type, trigger |-> records[i].offset,
                     roles |-> [a \in 1..Len(records[i].args) |->
                                   <<records[i].args[a].type, records[i].args[a].offset>>]]],
     string |-> [i \in 1..Len(records) |->
                    [type |-> records[i].type, trigger |-> records[i].text,
                     roles |-> [a \in 1..Len(records[i].args) |->
                                   <<records[i].args[a].type, records[i].args[a].text>>]]]]

\* the gold instance lists the loader of a scorer class builds
GoldInstanceLists(cls) ==
    CASE cls = "EntityScorer" ->
           {EntityScorer_load_gold_list(c) : c \in Corpora(EntitySpans)}
      [] cls = "RelationScorer" ->
           {RelationScorer_load_gold_list(c) : c \in Corpora(MovedRelations)}
      [] OTHER ->
           {EventScorer_load_gold_list(c) : c \in Corpora(EventRecords)}

\* the prediction instance lists the loader of a scorer class returns
PredInstanceLists(cls) ==
    CASE cls = "EntityScorer" ->
           {[i \in 1..Len(c) |-> EntInstance(c[i])] : c \in Corpora(EntitySpans)}
      [] cls = "RelationScorer" ->
           {[i \in 1..Len(c) |-> RelInstance(c[i])] : c \in Corpora(MovedRelations)}
      [] OTHER ->
           {EventScorer_load_pred_list([i \in 1..Len(c) |-> EvtRawPred(c[i])]) :
               c \in Corpora(EventRecords)}

InitScorers ==
    /\ AccIdle
    /\ BatchIdle
    /\ EqIdle
    /\ scorer \in Scorers
    /\ gold_instance_list \in GoldInstanceLists(scorer)
    /\ pred_instance_list \in PredInstanceLists(scorer)
    /\ arg_verbose \in BOOLEAN
    /\ arg_match_mode \in MatchModes
    /\ evaluated = FALSE
    /\ results = NoResult
    /\ warnings = <<>>
    /\ calls = <<>>
    /\ first = [results |-> NoResult, warnings |-> <<>>, raised |-> "none"]

EntityEval ==
    /\ scorer = "EntityScorer"
    /\ ~evaluated
    /\ \E out \in {EntityScorer_eval_instance_list(gold_instance_list, pred_instance_list,
                                                     arg_verbose, arg_match_mode)} :
       /\ results' = out.results
       /\ warnings' = out.warnings
       /\ raised' = out.raised
    /\ evaluated' = TRUE
    /\ UNCHANGED <<metric, op, gold_list, pred_list, pre, prefix, result,
                   batchVars, eqVars,
                   gold_instance_list, pred_instance_list, arg_verbose, arg_match_mode,
                   scorer, calls, first>>

EventEval ==
    /\ scorer = "EventScorer"
    /\ ~evaluated
    /\ \E out \in {EventScorer_eval_instance_list(gold_instance_list, pred_instance_list,
                                                    arg_verbose, arg_match_mode)} :
       /\ results' = out.results
       /\ warnings' = out.warnings
       /\ raised' = out.raised
    /\ evaluated' = TRUE
    /\ UNCHANGED <<metric, op, gold_list, pred_list, pre, prefix, result,
                   batchVars, eqVars,
                   gold_instance_list, pred_instance_list, arg_verbose, arg_match_mode,
                   scorer, calls, first>>

NextScorers == EntityEval \/ RelationEval \/ EventEval

SpecScorers == InitScorers /\ [][NextScorers]_vars

----------------------------------------------------------------------------
(* Several eval_instance_list calls in one run *)

\* what a call has returned and written
Outcome(out) == [results |-> out.results, warnings |-> out.warnings, raised |-> out.raised]

\* a call of the scorer's eval_instance_list has returned out
Called(which, out) ==
    /\ results' = out.results
    /\ warnings' = out.warnings
    /\ raised' = out.raised
    /\ evaluated' = TRUE
    /\ calls' = Append(calls, which)
    /\ first' = IF calls = <<>> THEN Outcome(out) ELSE first
    /\ UNCHANGED <<metric, op, gold_list, pred_list, pre, prefix, result,
                   batchVars, eqVars,
                   gold_instance_list, pred_instance_list, arg_verbose, arg_match_mode,
                   scorer>>

\* a call with the given gold_instance_list, pred_instance_list, verbose, match_mode
CallGiven ==
    /\ Len(calls) < MaxCalls
    /\ \E out \in {eval_instance_list(scorer, gold_instance_list, pred_instance_list,
                                       arg_verbose, arg_match_mode)} :
          Called("given", out)

\* a call with other inputs: the two lists exchanged, verbose negated
CallOther ==
    /\ Len(calls) < MaxCalls
    /\ \E out \in {eval_instance_list(scorer, pred_instance_list, gold_instance_list,
                                       ~arg_verbose, arg_match_mode)} :
          Called("other", out)

NextCalls == CallGiven \/ CallOther

SpecCalls == InitScorers /\ [][NextCalls]_vars

----------------------------------------------------------------------------
(* Lists of examples handed to an accumulator or to a scorer *)

InitExamples == InitBatch \/ InitScorers

NextExamples ==
    \/ scorer = "none" /\ CountBatchInstance
    \/ EntityEval
    \/ RelationEval
    \/ EventEval

SpecExamples == InitExamples /\ [][NextExamples]_vars

----------------------------------------------------------------------------
(* Properties of the accumulator, checked under Spec *)

\* the last call was count_instance on a flat-tuple Metric in the given mode
MetricCall(mode) ==
    op = "count_instance" /\ metric.cls = "Metric" /\ metric.match_mode = mode

\* all orderings of a list
Perms(list) ==
    {[i \in 1..Len(list) |-> list[f[i]]] :
        f \in {g \in [1..Len(list) -> 1..Len(list)] :
                  \A i, j \in 1..Len(list) : i # j => g[i] # g[j]}}

RECURSIVE SumOver(_, _, _)
SumOver(S, gold, preds) ==
    IF S = {} THEN 0
    ELSE LET v == CHOOSE x \in S : TRUE
         IN  Min(CountOf(gold, v), CountOf(preds, v)) + SumOver(S \ {v}, gold, preds)

\* size of the multiset intersection of two lists
MultisetInter(gold, preds) == SumOver(Range(gold) \cap Range(preds), gold, preds)

\* C1 as stated: in every reachable state of every accumulator,
\* tp <= min(gold_num, pred_num).
C1_TpBoundedByBoth == metric.tp <= Min(metric.gold_num, metric.pred_num)

\* C1 amended: tp <= min(gold_num, pred_num) holds in set and normal mode; in
\* multimatch mode a Metric keeps only tp <= pred_num and a record metric keeps
\* only tp <= gold_num.
C1_TpBoundedByMode ==
    /\ metric.match_mode \in {"set", "normal"}
         => metric.tp <= Min(metric.gold_num, metric.pred_num)
    /\ metric.match_mode = "multimatch" /\ metric.cls = "Metric"
         => metric.tp <= metric.pred_num
    /\ metric.match_mode = "multimatch" /\ metric.cls # "Metric"
         => metric.tp <= metric.gold_num

\* a second normal-mode call has matched, after a first one that matched too
C1_Witness ==
    /\ op = "count_instance"
    /\ metric.match_mode = "normal"
    /\ pre.tp > 0
    /\ metric.tp > pre.tp
    /\ metric.tp = Min(metric.gold_num, metric.pred_num)

\* C3: a normal-mode Metric.count_instance call that returns adds to tp the
\* size of the multiset intersection of the two lists, whatever the order of
\* the predictions, and adds the raw list lengths to gold_num and pred_num.
C3_NormalIsMultisetIntersection ==
    MetricCall("normal") /\ raised = "none" =>
        /\ metric.tp - pre.tp = MultisetInter(gold_list, pred_list)
        /\ metric.gold_num - pre.gold_num = Len(gold_list)
        /\ metric.pred_num - pre.pred_num = Len(pred_list)
        /\ \A q \in Perms(pred_list) :
               LET out == Metric_count_instance(pre, gold_list, q)
               IN  out.raised = "none" => out.self = metric

\* gold [a, a] and pred [a] have added tp = 1, gold_num = 2, pred_num = 1
C3_Witness ==
    /\ MetricCall("normal") /\ raised = "none"
    /\ gold_list = <<<<"PER", "a">>, <<"PER", "a">>>>
    /\ pred_list = <<<<"PER", "a">>>>
    /\ metric.tp - pre.tp = 1
    /\ metric.gold_num - pre.gold_num = 2
    /\ metric.pred_num - pre.pred_num = 1

\* C4: a multimatch-mode Metric.count_instance call that returns adds to tp the
\* number of predictions, with multiplicity, equal to some gold element, and
\* adds the raw list lengths to gold_num and pred_num.
C4_MultimatchCountsPredictions ==
    MetricCall("multimatch") /\ raised = "none" =>
        /\ metric.tp - pre.tp =
             Cardinality({i \in 1..Len(pred_list) :
                             \E j \in 1..Len(gold_list) : gold_list[j] = pred_list[i]})
        /\ metric.gold_num - pre.gold_num = Len(gold_list)
        /\ metric.pred_num - pre.pred_num = Len(pred_list)

\* gold [a, a] with pred [a, a] has added tp = 2
C4_Witness ==
    /\ MetricCall("multimatch") /\ raised = "none"
    /\ gold_list = <<<<"PER", "a">>, <<"PER", "a">>>>
    /\ pred_list = <<<<"PER", "a">>, <<"PER", "a">>>>
    /\ metric.tp - pre.tp = 2
    /\ metric.gold_num - pre.gold_num = 2

\* C5: a set-mode Metric.count_instance call adds |set(gold) & set(pred)| to tp,
\* |set(gold)| to gold_num and |set(pred)| to pred_num, and any reordering or
\* repetition of the elements of either list gives the same three increments.
C5_SetModeExact ==
    MetricCall("set") =>
        /\ raised = "none"
        /\ metric.tp - pre.tp = Cardinality(Range(gold_list) \cap Range(pred_list))
        /\ metric.gold_num - pre.gold_num = Cardinality(Range(gold_list))
        /\ metric.pred_num - pre.pred_num = Cardinality(Range(pred_list))
        /\ \A g \in TupleLists, p \in TupleLists :
               Range(g) = Range(gold_list) /\ Range(p) = Range(pred_list)
                   => Metric_count_instance(pre, g, p).self = metric

\* a set-mode call with a repeated gold element and a repeated prediction
C5_Witness ==
    /\ MetricCall("set")
    /\ gold_list = <<<<"PER", "a">>, <<"PER", "a">>>>
    /\ pred_list = <<<<"PER", "a">>, <<"PER", "a">>>>
    /\ metric.tp - pre.tp = 1
    /\ metric.gold_num - pre.gold_num = 1

\* some gold item and some predicted item differ in arity
ArityMismatch(gold, preds) ==
    \E i \in 1..Len(gold), j \in 1..Len(preds) : Len(gold[i]) # Len(preds[j])

\* C6 as stated: in normal or multimatch mode, a call whose lists are both
\* non-empty and hold a gold item and a predicted item of different arity ends
\* in an assertion failure.
C6_AnyArityMismatchFails ==
    /\ op = "count_instance" /\ metric.cls = "Metric"
    /\ metric.match_mode \in {"normal", "multimatch"}
    /\ ArityMismatch(gold_list, pred_list)
    => raised = "AssertionError"

\* C6 amended: in normal or multimatch mode the call ends in an assertion
\* failure exactly when both lists are non-empty and the FIRST gold item and
\* the FIRST predicted item differ in arity; a failed call adds nothing to tp.
C6_FirstArityMismatchFails ==
    /\ op = "count_instance" /\ metric.cls = "Metric"
    /\ metric.match_mode \in {"normal", "multimatch"}
    => /\ raised = "AssertionError" <=>
            /\ Len(gold_list) > 0 /\ Len(pred_list) > 0
            /\ Len(gold_list[1]) # Len(pred_list[1])
       /\ raised = "AssertionError" => metric.tp = pre.tp

\* a call whose first items differ in arity has failed
C6_Witness ==
    /\ MetricCall("normal")
    /\ gold_list = <<<<"PER", "a">>, <<"a">>>>
    /\ pred_list = <<<<"a">>>>
    /\ raised = "AssertionError"

\* C7: compute_f1 never raises; it returns the six keys prefix+tp, gold, pred,
\* P, R, F1, with P = 0 when pred_num = 0, R = 0 when gold_num = 0 and F1 = 0
\* when P + R = 0, and leaves the counters as they were.
C7_ComputeF1Total ==
    op = "compute_f1" =>
        /\ raised = "none"
        /\ DOMAIN result = {prefix \o k : k \in {"tp", "gold", "pred", "P", "R", "F1"}}
        /\ result[prefix \o "tp"] = Whole(metric.tp)
        /\ result[prefix \o "gold"] = Whole(metric.gold_num)
        /\ result[prefix \o "pred"] = Whole(metric.pred_num)
        /\ metric.pred_num = 0 => result[prefix \o "P"] = Whole(0)
        /\ metric.gold_num = 0 => result[prefix \o "R"] = Whole(0)
        /\ FAdd(result[prefix \o "P"], result[prefix \o "R"]) = Whole(0)
             => result[prefix \o "F1"] = Whole(0)
        /\ metric = pre

\* compute_f1 has returned on a freshly constructed accumulator
C7_Witness ==
    /\ op = "compute_f1"
    /\ metric.tp = 0 /\ metric.gold_num = 0 /\ metric.pred_num = 0
    /\ raised = "none"
    /\ prefix = "offset-ent-"
    /\ result["offset-ent-F1"] = Whole(0)

\* C8: on a record metric configured with match mode set, every count_instance
\* call raises the unsupported-mode error and leaves tp, gold_num and pred_num
\* unchanged.
C8_RecordSetModeRejected ==
    /\ op = "count_instance" /\ metric.cls # "Metric" /\ metric.match_mode = "set"
    => raised = "NotImplementedError" /\ metric = pre

\* a set-mode record metric has been handed a matching pair of lists
C8_Witness ==
    /\ op = "count_instance" /\ metric.cls = "RecordMetric"
    /\ metric.match_mode = "set"
    /\ Len(gold_list) > 0 /\ gold_list = pred_list
    /\ raised = "NotImplementedError"
    /\ metric.gold_num = 0

----------------------------------------------------------------------------
(* Properties of is_equal, checked under SpecEq *)

\* two lists hold the same elements the same number of times
SameBag(a, b) == \A x \in Range(a) \cup Range(b) : CountOf(a, x) = CountOf(b, x)

\* C9: RecordMetric.is_equal holds iff type and spot are equal and the asocs are
\* equal as multisets, whatever the order of either bag; OrderedRecordMetric's
\* holds iff type and spot are equal and the asocs are equal as sequences; the
\* ordered equality implies the unordered one.
C9_IsEqualCharacterised ==
    /\ "RecordMetric" \in DOMAIN equal =>
         /\ equal["RecordMetric"] <=>
              /\ eq_gold.type = eq_pred.type
              /\ eq_gold.spot = eq_pred.spot
              /\ SameBag(eq_gold.asocs, eq_pred.asocs)
         /\ \A g \in Perms(eq_gold.asocs), p \in Perms(eq_pred.asocs) :
              RecordMetric_is_equal([eq_gold EXCEPT !.asocs = g], [eq_pred EXCEPT !.asocs = p])
                  = equal["RecordMetric"]
    /\ "OrderedRecordMetric" \in DOMAIN equal =>
         (equal["OrderedRecordMetric"] <=>
              /\ eq_gold.type = eq_pred.type
              /\ eq_gold.spot = eq_pred.spot
              /\ Len(eq_gold.asocs) = Len(eq_pred.asocs)
              /\ \A i \in 1..Len(eq_gold.asocs) : eq_gold.asocs[i] = eq_pred.asocs[i])
    /\ DOMAIN equal = {"RecordMetric", "OrderedRecordMetric"} =>
         (equal["OrderedRecordMetric"] => equal["RecordMetric"])

\* two records whose bags differ only in order: equal for RecordMetric, not for
\* OrderedRecordMetric (the converse implication fails)
C9_Witness ==
    /\ DOMAIN equal = {"RecordMetric", "OrderedRecordMetric"}
    /\ eq_gold.asocs = <<<<1, 2>>, <<2, 1>>>>
    /\ eq_pred.asocs = <<<<2, 1>>, <<1, 2>>>>
    /\ equal["RecordMetric"]
    /\ ~equal["OrderedRecordMetric"]

----------------------------------------------------------------------------
(* Properties of count_batch_instance, checked under SpecBatch *)

\* the counters one example adds to a fresh accumulator of the same kind
Alone(i) ==
    count_instance(NewMetric(metric.cls, metric.match_mode),
                   batch_gold_list[i], batch_pred_list[i])

\* the pairs the batch call went through: up to the first that raises
Pairs ==
    LET n == Min(Len(batch_gold_list), Len(batch_pred_list))
        bad == {i \in 1..n : Alone(i).raised # "none"}
    IN  IF bad = {} THEN 1..n
        ELSE 1..(CHOOSE i \in bad : \A j \in bad : i <= j)

RECURSIVE SumAlone(_, _)
SumAlone(S, field) ==
    IF S = {} THEN 0
    ELSE LET i == CHOOSE x \in S : TRUE
         IN  (CASE field = "tp" -> Alone(i).self.tp
                [] field = "gold_num" -> Alone(i).self.gold_num
                [] OTHER -> Alone(i).self.pred_num)
             + SumAlone(S \ {i}, field)

\* C10: count_batch_instance leaves the counters where calling count_instance
\* on each pair (gold_i, pred_i) in order leaves them: each example adds what
\* it adds on its own, and nothing is matched across examples.
C10_BatchIsPerExample ==
    op = "count_batch_instance" =>
        /\ metric.tp = pre.tp + SumAlone(Pairs, "tp")
        /\ metric.gold_num = pre.gold_num + SumAlone(Pairs, "gold_num")
        /\ metric.pred_num = pre.pred_num + SumAlone(Pairs, "pred_num")
        /\ raised = (IF Pairs = {} THEN "none"
                     ELSE Alone(CHOOSE i \in Pairs : \A j \in Pairs : j <= i).raised)

\* a batch whose gold items sit in the other example than the equal predictions
C10_Witness ==
    /\ op = "count_batch_instance"
    /\ metric.cls = "Metric" /\ metric.match_mode = "normal"
    /\ batch_gold_list = << <<<<"PER", "a">>>>, <<>> >>
    /\ batch_pred_list = << <<>>, <<<<"PER", "a">>>> >>
    /\ metric.tp = 0 /\ metric.gold_num = 1 /\ metric.pred_num = 1

----------------------------------------------------------------------------
(* Properties of RelationScorer.eval_instance_list, checked under SpecRel *)

\* the tp one example pair adds to a fresh accumulator of the evaluation's mode
AddedTp(g, p) ==
    Metric_count_instance(NewMetric("Metric", arg_match_mode), g, p).self.tp

\* boundary tp >= strict tp, on the returned totals and on every example pair
BoundaryAtLeastStrict ==
    /\ results["offset-rel-boundary-tp"].n >= results["offset-rel-strict-tp"].n
    /\ results["string-rel-boundary-tp"].n >= results["string-rel-strict-tp"].n
    /\ \A i \in 1..Min(Len(gold_instance_list), Len(pred_instance_list)) :
         LET g == gold_instance_list[i]
             p == pred_instance_list[i]
         IN  /\ AddedTp(BoundaryGold(g.offset), BoundaryPred(p.offset))
                  >= AddedTp(g.offset, p.offset)
             /\ AddedTp(BoundaryGold(g.string), BoundaryPred(p.string))
                  >= AddedTp(g.string, p.string)

\* C2 as stated: in every match mode the boundary accumulator adds at least the
\* tp the strict accumulator adds, so '<axis>-rel-boundary-tp' >=
\* '<axis>-rel-strict-tp'.
C2_BoundaryAtLeastStrictAnyMode == evaluated => BoundaryAtLeastStrict

\* C2 amended: the same in match modes normal and multimatch; in set mode two
\* gold 5-tuples can project to one boundary tuple, and boundary tp can be
\* smaller than strict tp.
C2_BoundaryAtLeastStrictUnlessSet ==
    evaluated /\ arg_match_mode \in {"normal", "multimatch"} => BoundaryAtLeastStrict

\* the prediction swaps the argument types of the gold relation: strict tp = 0,
\* boundary tp = 1
C2_Witness ==
    /\ evaluated
    /\ arg_match_mode = "normal"
    /\ Len(gold_instance_list) = 1 /\ Len(pred_instance_list) = 1
    /\ gold_instance_list[1].offset = <<<<"REL", "PER", <<0, 1>>, "ORG", <<2, 3>>>>>>
    /\ pred_instance_list[1].offset = <<<<"REL", "ORG", <<0, 1>>, "PER", <<2, 3>>>>>>
    /\ results["offset-rel-strict-tp"] = Whole(0)
    /\ results["offset-rel-boundary-tp"] = Whole(1)

----------------------------------------------------------------------------
(* Properties of RecordMetric.count_instance, checked under Spec *)

\* the last call was count_instance on a record metric in the given mode
RecordCall(mode) ==
    op = "count_instance" /\ metric.cls # "Metric" /\ metric.match_mode = mode

\* gold records structurally equal to prediction i
EqualGolds(i) ==
    {j \in 1..Len(gold_list) : is_equal(metric.cls, gold_list[j], pred_list[i])}

\* predictions up to position i structurally equal to prediction i
EqualPredsUpTo(i) ==
    {k \in 1..i : is_equal(metric.cls, pred_list[k], pred_list[i])}

\* C12: in RecordMetric.count_instance a gold record is counted toward tp at
\* most once per call in normal and in multimatch mode; in normal mode the scan
\* stops at the first unconsumed equal gold record, so each prediction adds at
\* most 1 (a prediction matches while an unconsumed equal gold record is left);
\* in multimatch mode a prediction consumes every unconsumed equal gold record.
C12_RecordScanConsumesGold ==
    /\ RecordCall("normal") =>
         /\ metric.tp - pre.tp <= Len(gold_list)
         /\ metric.tp - pre.tp <= Len(pred_list)
         /\ metric.tp - pre.tp =
              Cardinality({i \in 1..Len(pred_list) :
                              Cardinality(EqualPredsUpTo(i)) <= Cardinality(EqualGolds(i))})
    /\ RecordCall("multimatch") =>
         /\ metric.tp - pre.tp <= Len(gold_list)
         /\ metric.tp - pre.tp = Cardinality(UNION {EqualGolds(i) : i \in 1..Len(pred_list)})
    /\ (RecordCall("normal") \/ RecordCall("multimatch")) =>
         /\ raised = "none"
         /\ metric.gold_num - pre.gold_num = Len(gold_list)
         /\ metric.pred_num - pre.pred_num = Len(pred_list)

\* in multimatch mode one prediction has consumed two equal gold records, then a
\* second equal prediction has found none left
C12_Witness ==
    /\ RecordCall("multimatch") /\ metric.cls = "RecordMetric"
    /\ Len(gold_list) = 2 /\ Len(pred_list) = 2
    /\ gold_list[1] # gold_list[2]
    /\ pred_list[1] = pred_list[2]
    /\ EqualGolds(1) = {1, 2}
    /\ metric.tp - pre.tp = 2

----------------------------------------------------------------------------
(* Properties of the order of the examples, checked under SpecExamples *)

\* the list with its elements in the order order[1], order[2], ...
Permuted(list, order) == [i \in 1..Len(order) |-> list[order[i]]]

\* the orders of the examples of a list
Orders(list) == Perms([i \in 1..Len(list) |-> i])

\* the batch call on the two lists of examples in another order
BatchReordered(order) ==
    count_batch_instance(pre, Permuted(batch_gold_list, order),
                              Permuted(batch_pred_list, order))

\* the scorer call on the two lists of examples in another order
EvalReordered(order) ==
    eval_instance_list(scorer, Permuted(gold_instance_list, order),
                               Permuted(pred_instance_list, order),
                       arg_verbose, arg_match_mode)

----------------------------------------------------------------------------
(* Properties of the tp warnings, checked under SpecScorers *)

\* the examples eval_instance_list pairs up
Zipped == 1..Min(Len(gold_instance_list), Len(pred_instance_list))

\* what one example's lists add to the tp of a fresh accumulator
TpAlone(gold, preds) ==
    count_instance(NewMetric("Metric", arg_match_mode), gold, preds).self.tp

\* the warning of one pair of accumulators for one example, if its two axes
\* add different tp
PairWarning(gold_offset, pred_offset, gold_string, pred_string, g, p, pf) ==
    IF TpAlone(gold_offset, pred_offset) # TpAlone(gold_string, pred_string)
    THEN <<[prefix |-> pf, gold |-> g, pred |-> p]>>
    ELSE <<>>

\* the warnings one example calls for, in the order the scorer checks them
ExampleWarnings(g, p) ==
    CASE scorer = "EntityScorer" ->
           PairWarning(g.offset, p.offset, g.string, p.string, g, p, "Entity")
      [] scorer = "RelationScorer" ->
           PairWarning(g.offset, p.offset, g.string, p.string, g, p, "Relation Strict")
           \o PairWarning(BoundaryGold(g.offset), BoundaryPred(p.offset),
                          BoundaryGold(g.string), BoundaryPred(p.string),
                          g, p, "Relation Boundary")
      [] OTHER ->
           PairWarning(g.offset_trigger, p.offset_trigger,
                       g.string_trigger, p.string_trigger, g, p, "Trigger")
           \o PairWarning(g.offset_role, p.offset_role,
                          g.string_role, p.string_role, g, p, "Role")

\* the warnings of all paired examples, in order
DivergenceWarnings ==
    Flatten([i \in Zipped |-> ExampleWarnings(gold_instance_list[i], pred_instance_list[i])])

\* the first list of the first pair of accumulators, and the key of its gold count
FirstGoldList(g) == IF scorer = "EventScorer" THEN g.offset_trigger ELSE g.offset

FirstGoldKey ==
    CASE scorer = "EntityScorer" -> "offset-ent-gold"
      [] scorer = "RelationScorer" -> "offset-rel-strict-gold"
      [] OTHER -> "offset-evt-trigger-gold"

RECURSIVE GoldCounted(_)
GoldCounted(n) ==
    IF n = 0 THEN 0
    ELSE GoldCounted(n - 1)
         + (IF arg_match_mode = "set"
            THEN Cardinality(Range(FirstGoldList(gold_instance_list[n])))
            ELSE Len(FirstGoldList(gold_instance_list[n])))

\* C14: a difference between the offset and the string tp delta of an example
\* never halts eval_instance_list: the call raises nothing, writes a warning
\* for exactly the diverging examples when verbose is true and none when it is
\* false, counts every paired example, and returns the mapping it returns for
\* the same inputs with verbose = false.
C14_WarningsNeverHalt ==
    evaluated =>
        /\ raised = "none"
        /\ warnings = (IF arg_verbose THEN DivergenceWarnings ELSE <<>>)
        /\ results[FirstGoldKey] = Whole(GoldCounted(Cardinality(Zipped)))
        /\ \A out \in {eval_instance_list(scorer, gold_instance_list, pred_instance_list,
                                           FALSE, arg_match_mode)} :
              /\ out.raised = "none"
              /\ out.results = results

\* a verbose entity evaluation has warned about its first example, whose
\* prediction has the gold text at another offset, and has counted the second
C14_Witness ==
    /\ evaluated /\ arg_verbose /\ scorer = "EntityScorer"
    /\ Len(gold_instance_list) = 2 /\ Len(pred_instance_list) = 2
    /\ gold_instance_list[1].string = pred_instance_list[1].string
    /\ gold_instance_list[1].offset # pred_instance_list[1].offset
    /\ gold_instance_list[2] = pred_instance_list[2]
    /\ Len(gold_instance_list[2].offset) = 1
    /\ Len(warnings) = 1 /\ warnings[1].prefix = "Entity"
    /\ warnings[1].gold = gold_instance_list[1]
    /\ results["offset-ent-tp"] = Whole(1)
    /\ results["string-ent-tp"] = Whole(2)

----------------------------------------------------------------------------
(* Properties of lists of different length, checked under SpecExamples *)

\* the first n elements of a list
FirstN(list, n) == SubSeq(list, 1, n)

\* the number of pairs the batch call can form
BatchPairs == Min(Len(batch_gold_list), Len(batch_pred_list))

\* the first list of the first pair of accumulators, and the key of its
\* prediction count
FirstPredList(p) == IF scorer = "EventScorer" THEN p.offset_trigger ELSE p.offset

FirstPredKey ==
    CASE scorer = "EntityScorer" -> "offset-ent-pred"
      [] scorer = "RelationScorer" -> "offset-rel-strict-pred"
      [] OTHER -> "offset-evt-trigger-pred"

RECURSIVE PredCounted(_)
PredCounted(n) ==
    IF n = 0 THEN 0
    ELSE PredCounted(n - 1)
         + (IF arg_match_mode = "set"
            THEN Cardinality(Range(FirstPredList(pred_instance_list[n])))
            ELSE Len(FirstPredList(pred_instance_list[n])))

\* C15: count_batch_instance and eval_instance_list of every scorer go through
\* the first min(len(gold), len(pred)) pairs of examples only: they leave what
\* the call on the two lists cut to that length leaves, a difference in length
\* raises nothing, and the surplus examples add nothing to tp, gold_num or
\* pred_num.
C15_SurplusExamplesIgnored ==
    /\ op = "count_batch_instance" =>
          /\ \A out \in {count_batch_instance(pre, FirstN(batch_gold_list, BatchPairs),
                                                    FirstN(batch_pred_list, BatchPairs))} :
                /\ out.self = metric
                /\ out.raised = raised
          /\ (\A i \in 1..BatchPairs : Alone(i).raised = "none") =>
                /\ raised = "none"
                /\ metric.tp = pre.tp + SumAlone(1..BatchPairs, "tp")
                /\ metric.gold_num = pre.gold_num + SumAlone(1..BatchPairs, "gold_num")
                /\ metric.pred_num = pre.pred_num + SumAlone(1..BatchPairs, "pred_num")
    /\ evaluated =>
          /\ raised = "none"
          /\ results[FirstGoldKey] = Whole(GoldCounted(Cardinality(Zipped)))
          /\ results[FirstPredKey] = Whole(PredCounted(Cardinality(Zipped)))
          /\ \A out \in {eval_instance_list(scorer,
                                             FirstN(gold_instance_list, Cardinality(Zipped)),
                                             FirstN(pred_instance_list, Cardinality(Zipped)),
                                             arg_verbose, arg_match_mode)} :
                /\ out.raised = raised
                /\ out.results = results
                /\ out.warnings = warnings

\* a relation evaluation of one gold example against two predicted ones, the
\* second of them not empty, has counted one prediction
C15_Witness ==
    /\ evaluated /\ scorer = "RelationScorer" /\ raised = "none"
    /\ Len(gold_instance_list) = 1 /\ Len(pred_instance_list) = 2
    /\ gold_instance_list[1] = pred_instance_list[1]
    /\ Len(pred_instance_list[1].offset) = 1
    /\ Len(pred_instance_list[2].offset) = 1
    /\ results["offset-rel-strict-pred"] = Whole(1)
    /\ results["offset-rel-strict-tp"] = Whole(1)

----------------------------------------------------------------------------
(* Properties of repeated calls, checked under SpecCalls *)

\* the last call had the inputs of the first call of the run
LastAsFirst == calls # <<>> /\ calls[Len(calls)] = calls[1]

====
